---------------------------- MODULE Spec2Model ----------------------------
(***************************************************************************)
(* MediaStatus (src/index.tsx): a Vencord plugin that polls a Jellyfin or  *)
(* Plex server on an interval, maps the playing session to a MediaData     *)
(* value and dispatches a LOCAL_ACTIVITY_UPDATE (an activity or null) to   *)
(* Discord's FluxDispatcher.                                               *)
(*                                                                         *)
(* JavaScript values are tagged records (t = "undefined", "number", "NaN", *)
(* "string", "boolean", "object"), so that truthiness tests, template      *)
(* strings and optional fields behave as they do in the source.            *)
(***************************************************************************)
EXTENDS Integers, Sequences, FiniteSets, TLC

VARIABLES
    settings,   \* settings.store: the plugin's configuration
    interval,   \* this.interval: the timer handle start() stored, or NoTimer
    timers,     \* the timers setInterval created and clearInterval has not cancelled
    polls,      \* the updatePresence() calls made so far, each with its position
    sinkLog,    \* every FluxDispatcher.dispatch call made, in order
    foreign,    \* whether PresenceStore holds an activity of another application
    lifecycle,  \* the start()/stop() calls made so far, in order
    call,       \* (function specifications) the call under evaluation
    ret         \* (function specifications) its result, or Pending

vars == <<settings, interval, timers, polls, sinkLog, foreign, lifecycle, call, ret>>

-----------------------------------------------------------------------------
(* Bounds of the model *)

\* updatePresence() calls per behaviour
MaxPolls == 3

\* start() and stop() calls per behaviour
MaxLifecycle == 3

-----------------------------------------------------------------------------
(* JavaScript values *)

JSUndef == [t |-> "undefined"]

JSNaN == [t |-> "NaN"]

JSNum(n) == [t |-> "number", n |-> n]

JSStr(s) == [t |-> "string", s |-> s]

JSBool(b) == [t |-> "boolean", b |-> b]

\* ToBoolean: undefined, NaN, 0, "" and false are falsy
Truthy(v) ==
    CASE v.t = "number"  -> v.n # 0
      [] v.t = "string"  -> v.s # ""
      [] v.t = "boolean" -> v.b
      [] v.t = "object"  -> TRUE
      [] OTHER           -> FALSE

Digits == <<"0", "1", "2", "3", "4", "5", "6", "7", "8", "9">>

RECURSIVE NatToString(_)
NatToString(n) ==
    IF n < 10 THEN Digits[n + 1]
    ELSE NatToString(n \div 10) \o Digits[(n % 10) + 1]

\* Number.prototype.toString for integers
NumToString(n) == IF n < 0 THEN "-" \o NatToString(-n) ELSE NatToString(n)

\* the string a template literal `${v}` inserts
ToStr(v) ==
    CASE v.t = "number"    -> NumToString(v.n)
      [] v.t = "string"    -> v.s
      [] v.t = "boolean"   -> IF v.b THEN "true" ELSE "false"
      [] v.t = "NaN"       -> "NaN"
      [] OTHER             -> "undefined"

RECURSIVE Repeat(_, _)
Repeat(c, k) == IF k <= 0 THEN "" ELSE c \o Repeat(c, k - 1)

\* String.prototype.padStart with a one-character fill
padStart(s, len, fill) ==
    IF Len(s) >= len THEN s ELSE Repeat(fill, len - Len(s)) \o s

UpperCase == <<"A", "B", "C", "D", "E", "F", "G", "H", "I", "J", "K", "L", "M",
               "N", "O", "P", "Q", "R", "S", "T", "U", "V", "W", "X", "Y", "Z">>

LowerCase == <<"a", "b", "c", "d", "e", "f", "g", "h", "i", "j", "k", "l", "m",
               "n", "o", "p", "q", "r", "s", "t", "u", "v", "w", "x", "y", "z">>

LowerChar(c) ==
    IF \E i \in 1..26 : UpperCase[i] = c
    THEN LowerCase[CHOOSE i \in 1..26 : UpperCase[i] = c]
    ELSE c

RECURSIVE Join(_)
Join(chars) == IF chars = << >> THEN "" ELSE Head(chars) \o Join(Tail(chars))

\* String.prototype.toLowerCase of a string given as its characters
toLowerCase(chars) == Join([i \in 1..Len(chars) |-> LowerChar(chars[i])])

\* Math.round(p / d * 100) for integers p >= 0, d > 0: halves round up. The
\* quotient is taken exactly; for the values of TickValues and MsValues the
\* double-precision result rounds to the same integer.
\* Written through quotient and remainder of p by d, which keeps the products
\* within TLC's 32-bit integers.
RoundPercent(p, d) == 100 * (p \div d) + (200 * (p % d) + d) \div (2 * d)


JSNull == [t |-> "null"]

\* a string given as its characters (the server's type strings)
JSChars(c) == [t |-> "string", c |-> c]

\* the outcome of a block that may throw
Return(v) == [k |-> "return", v |-> v]

Throw == [k |-> "throw"]

-----------------------------------------------------------------------------
(* Enumerations and constants of the plugin *)

DISCORD_APP_ID == "1333493119525720082"

SocketId == "MediaStatus"

MediaType == {"Movie", "Episode", "Audio", "Video", "Photo", "Unknown"}

ServiceType == {"jellyfin", "plex"}

DisplayFormat == {"natural", "short", "minimal"}

\* the fields of MediaData an adapter leaves unset
NoVariant ==
    [series |-> JSUndef, season |-> JSUndef, episode |-> JSUndef,
     artist |-> JSUndef, albumArtist |-> JSUndef, albumTitle |-> JSUndef,
     photographer |-> JSUndef, studio |-> JSUndef]

\* {...a, ...b}: the fields of b override those of a
Spread(a, b) ==
    [f \in DOMAIN a \cup DOMAIN b |-> IF f \in DOMAIN b THEN b[f] ELSE a[f]]

-----------------------------------------------------------------------------
(* Presentation: formatEpisodeNumber, getServerName *)

\* the number as written, without padStart: what C10's padded forms rule out
padNone(n) == NumToString(n)

pad(n) == padStart(NumToString(n), 2, "0")

\* season, episode: JS values (numbers or undefined)
formatEpisodeNumber(s, season, episode) ==
    IF ~Truthy(season) \/ ~Truthy(episode) THEN ""
    ELSE CASE s.episodeFormat = "short" ->
                "S" \o pad(season.n) \o "E" \o pad(episode.n)
           [] s.episodeFormat = "minimal" ->
                NumToString(season.n) \o "x" \o pad(episode.n)
           [] OTHER ->
                "Season " \o NumToString(season.n) \o " Episode " \o NumToString(episode.n)

getServerName(s) ==
    IF Truthy(s.serverName) THEN s.serverName.s
    ELSE IF s.serverType = "jellyfin" THEN "Jellyfin" ELSE "Plex"

-----------------------------------------------------------------------------
(* The Jellyfin adapter *)

\* Math.round for Math.floor at line 130: what C12 rules out
toMsRounded(ticks) == (ticks + 5000) \div 10000

toMs(ticks) == ticks \div 10000

\* type: the characters of the server's type string
JellyfinGetMediaType(type) ==
    LET l == toLowerCase(type) IN
    CASE l = "movie"   -> "Movie"
      [] l = "episode" -> "Episode"
      [] l = "audio"   -> "Audio"
      [] l = "video"   -> "Video"
      [] l = "photo"   -> "Photo"
      [] OTHER         -> "Unknown"

\* Math.round((position / duration) * 100) on JS values, duration truthy
Progress(position, duration) ==
    IF position.t = "number" THEN JSNum(RoundPercent(position.n, duration.n))
    ELSE JSNaN

\* sessions.find(s => s.NowPlayingItem): the index of the first match, 0 when
\* there is none, -1 when the callback throws on a null element first
RECURSIVE FindPlaying(_, _)
FindPlaying(sessions, i) ==
    IF i > Len(sessions) THEN 0
    ELSE IF sessions[i].t # "object" THEN -1
    ELSE IF Truthy(sessions[i].NowPlayingItem) THEN i
    ELSE FindPlaying(sessions, i + 1)

\* lines 128-173, for a session found
JellyfinMap(s, playingSession) ==
    LET item      == playingSession.NowPlayingItem
        playState == playingSession.PlayState
    IN
    IF item.Type.t # "string" THEN Throw            \* type.toLowerCase()
    ELSE IF playState.t # "object" THEN Throw       \* playState.IsPaused
    ELSE
    LET baseData ==
            [t        |-> "object",
             title    |-> item.Name,
             type     |-> JellyfinGetMediaType(item.Type.c),
             progress |-> IF Truthy(item.RunTimeTicks)
                          THEN Progress(playState.PositionTicks, item.RunTimeTicks)
                          ELSE JSUndef,
             isPaused |-> playState.IsPaused,
             imageUrl |-> IF item.ImageTags.t = "object" /\ Truthy(item.ImageTags.Primary)
                          THEN JSStr(ToStr(s.serverUrl) \o "/Items/" \o ToStr(item.Id)
                                     \o "/Images/Primary?api_key=" \o ToStr(s.apiKey))
                          ELSE JSUndef,
             duration |-> IF Truthy(item.RunTimeTicks)
                          THEN JSNum(toMs(item.RunTimeTicks.n)) ELSE JSUndef,
             position |-> IF Truthy(playState.PositionTicks)
                          THEN JSNum(toMs(playState.PositionTicks.n)) ELSE JSUndef,
             year     |-> item.ProductionYear]
    IN
    CASE baseData.type = "Episode" ->
            Return(Spread(Spread(NoVariant, baseData),
                          [series  |-> item.SeriesName,
                           season  |-> item.ParentIndexNumber,
                           episode |-> item.IndexNumber]))
      [] baseData.type = "Audio" ->
            Return(Spread(Spread(NoVariant, baseData),
                          [artist      |-> IF item.Artists.t = "object"
                                              /\ Len(item.Artists.items) > 0
                                           THEN item.Artists.items[1] ELSE JSUndef,
                           albumArtist |-> item.AlbumArtist,
                           albumTitle  |-> item.Album]))
      [] OTHER -> Return(Spread(NoVariant, baseData))

\* the try block, lines 118-173
JellyfinTry(s, http) ==
    IF http.net # "ok" THEN Throw                   \* fetch rejects
    ELSE IF ~http.ok THEN Throw                     \* line 122
    ELSE IF http.body.kind = "invalid" THEN Throw   \* response.json() rejects
    ELSE IF http.body.kind # "list" THEN Throw      \* sessions.find is not a function
    ELSE LET i == FindPlaying(http.body.sessions, 1) IN
         IF i = -1 THEN Throw
         ELSE IF i = 0 THEN Return(JSNull)
         ELSE JellyfinMap(s, http.body.sessions[i])

\* what an adapter call did: the value its promise resolved to (or threw = TRUE
\* when it rejected), the logger.error calls and the HTTP requests it made
Outcome(value, threw, logged, requests) ==
    [value |-> value, threw |-> threw, logged |-> logged, requests |-> requests]

\* an adapter without the try/catch of lines 117-178: what C6 rules out
Rethrow(r) ==
    IF r.k = "throw" THEN Outcome(JSUndef, TRUE, 0, 1)
    ELSE Outcome(r.v, FALSE, 0, 1)

\* try { ... } catch (e) { logger.error(...); return null; }
CatchAndLog(r) ==
    IF r.k = "throw" THEN Outcome(JSNull, FALSE, 1, 1)
    ELSE Outcome(r.v, FALSE, 0, 1)

\* an adapter without the guard of line 115: what C7 rules out
fetchJellyfinDataUnguarded(s, http) == CatchAndLog(JellyfinTry(s, http))

fetchJellyfinData(s, http) ==
    IF ~Truthy(s.serverUrl) \/ ~Truthy(s.apiKey) THEN Outcome(JSNull, FALSE, 0, 0)
    ELSE CatchAndLog(JellyfinTry(s, http))

-----------------------------------------------------------------------------
(* The Plex adapter *)

\* the switch of lines 199-206 on the type as sent: what C9 rules out
PlexGetMediaTypeExact(type) ==
    LET l == Join(type) IN
    CASE l = "movie"   -> "Movie"
      [] l = "episode" -> "Episode"
      [] l = "track"   -> "Audio"
      [] l = "photo"   -> "Photo"
      [] l = "clip"    -> "Video"
      [] OTHER         -> "Unknown"

PlexGetMediaType(type) ==
    LET l == toLowerCase(type) IN
    CASE l = "movie"   -> "Movie"
      [] l = "episode" -> "Episode"
      [] l = "track"   -> "Audio"
      [] l = "photo"   -> "Photo"
      [] l = "clip"    -> "Video"
      [] OTHER         -> "Unknown"

\* a || b
Or(a, b) == IF Truthy(a) THEN a ELSE b

\* lines 198-245, for the first metadata entry
PlexMap(s, session) ==
    IF session.type.t # "string" THEN Throw         \* type.toLowerCase()
    ELSE IF session.Player.t # "object" THEN Throw  \* session.Player.state
    ELSE
    LET baseData ==
            [t        |-> "object",
             title    |-> session.title,
             type     |-> PlexGetMediaType(session.type.c),
             progress |-> IF Truthy(session.duration)
                          THEN Progress(session.viewOffset, session.duration)
                          ELSE JSUndef,
             isPaused |-> JSBool(session.Player.state # JSStr("playing")),
             imageUrl |-> IF Truthy(session.thumb)
                          THEN JSStr(ToStr(s.serverUrl) \o ToStr(session.thumb)
                                     \o "?X-Plex-Token=" \o ToStr(s.apiKey))
                          ELSE JSUndef,
             duration |-> session.duration,
             position |-> session.viewOffset,
             year     |-> session.year,
             studio   |-> session.studio]
    IN
    CASE baseData.type = "Episode" ->
            Return(Spread(Spread(NoVariant, baseData),
                          [series  |-> session.grandparentTitle,
                           season  |-> session.parentIndex,
                           episode |-> session.index]))
      [] baseData.type = "Audio" ->
            Return(Spread(Spread(NoVariant, baseData),
                          [artist      |-> Or(session.originalTitle, session.grandparentTitle),
                           albumArtist |-> session.grandparentTitle,
                           albumTitle  |-> session.parentTitle]))
      [] baseData.type = "Photo" ->
            Return(Spread(Spread(NoVariant, baseData),
                          [photographer |-> Or(session.originalTitle, JSUndef)]))
      [] OTHER -> Return(Spread(NoVariant, baseData))

\* the try block, lines 185-245
PlexTry(s, http) ==
    IF http.net # "ok" THEN Throw                   \* fetch rejects
    ELSE IF ~http.ok THEN Throw                     \* line 192
    ELSE IF http.body.kind = "invalid" THEN Throw   \* response.json() rejects
    ELSE IF http.body.kind # "object" THEN Throw    \* data.MediaContainer.Metadata
    ELSE IF http.body.MediaContainer.t # "object" THEN Throw
    ELSE LET metadata == http.body.MediaContainer.Metadata IN
         IF metadata.t # "object" THEN Return(JSNull)        \* ?.[0] of undefined
         ELSE IF Len(metadata.items) = 0 THEN Return(JSNull)
         ELSE IF ~Truthy(metadata.items[1]) THEN Return(JSNull)
         ELSE PlexMap(s, metadata.items[1])

fetchPlexData(s, http) ==
    IF ~Truthy(s.serverUrl) \/ ~Truthy(s.apiKey) THEN Outcome(JSNull, FALSE, 0, 0)
    ELSE CatchAndLog(PlexTry(s, http))

-----------------------------------------------------------------------------
(* What the servers can answer *)

\* type strings as the servers spell them, and some they could also send
TypeStrings ==
    { <<"M", "o", "v", "i", "e">>, <<"m", "o", "v", "i", "e">>,
      <<"E", "p", "i", "s", "o", "d", "e">>, <<"e", "p", "i", "s", "o", "d", "e">>,
      <<"A", "u", "d", "i", "o">>, <<"V", "i", "d", "e", "o">>,
      <<"P", "H", "O", "T", "O">>, <<"t", "r", "a", "c", "k">>,
      <<"C", "l", "i", "p">>, <<"T", "r", "a", "i", "l", "e", "r">>, << >> }

TypeValues == {JSUndef} \cup {JSChars(c) : c \in TypeStrings}

\* RunTimeTicks / PositionTicks (100 ns units)
TickValues ==
    {JSUndef, JSNum(0), JSNum(5000), JSNum(20000), JSNum(30000), JSNum(45000),
     JSNum(50000000)}

\* Plex duration / viewOffset (ms)
MsValues == {JSUndef, JSNum(0), JSNum(1), JSNum(2), JSNum(3), JSNum(7)}

Primary == [t |-> "object", Primary |-> JSStr("tag")]

JfItem(type, run, img, album) ==
    [t |-> "object", Name |-> JSStr("Pilot"), Type |-> type, RunTimeTicks |-> run,
     ImageTags |-> img, Id |-> JSStr("i1"), ProductionYear |-> JSNum(1999),
     SeriesName |-> JSStr("Show"), ParentIndexNumber |-> JSNum(1),
     IndexNumber |-> JSNum(2),
     Artists |-> [t |-> "object", items |-> <<JSStr("Band")>>],
     AlbumArtist |-> JSStr("Band"), Album |-> album]

JfPlayState(pos, paused) ==
    [t |-> "object", PositionTicks |-> pos, IsPaused |-> JSBool(paused)]

JfSession(item, playState) ==
    [t |-> "object", NowPlayingItem |-> item, PlayState |-> playState]

JfIdle == JfSession(JSUndef, JSUndef)

HttpOk(body) == [net |-> "ok", ok |-> TRUE, body |-> body]

HttpStatus == [net |-> "ok", ok |-> FALSE, body |-> [kind |-> "invalid"]]

HttpNetError == [net |-> "error", ok |-> FALSE, body |-> [kind |-> "invalid"]]

JfList(sessions) == HttpOk([kind |-> "list", sessions |-> sessions])

\* transport error, HTTP error status, unparsable body, bodies of another shape
BadHttp ==
    { HttpNetError, HttpStatus, HttpOk([kind |-> "invalid"]),
      HttpOk([kind |-> "null"]), HttpOk([kind |-> "string"]) }

JellyfinSessionsOf(types, runs, positions) ==
    { JfSession(JfItem(ty, run, img, JSStr("Abbey Road")), JfPlayState(pos, paused)) :
        ty \in types, run \in runs, img \in {JSUndef, Primary},
        pos \in positions, paused \in BOOLEAN }

JellyfinSessions ==
    JellyfinSessionsOf(TypeValues, TickValues, TickValues)
    \cup
    { JfSession(JfItem(JSChars(<<"m", "o", "v", "i", "e">>), run, JSUndef, JSUndef), JSUndef) :
        run \in TickValues }

\* every answer the Jellyfin adapter is evaluated on
JellyfinHttp ==
    BadHttp
    \cup { HttpOk([kind |-> "object", MediaContainer |-> JSUndef]) }
    \cup { JfList(<< >>), JfList(<<JfIdle>>), JfList(<<JSNull>>) }
    \cup { JfList(<<x>>) : x \in JellyfinSessions }
    \cup { JfList(<<JfIdle, x>>) : x \in JellyfinSessions }

MovieType == JSChars(<<"M", "o", "v", "i", "e">>)

EpisodeType == JSChars(<<"e", "p", "i", "s", "o", "d", "e">>)

AudioType == JSChars(<<"A", "u", "d", "i", "o">>)

TrackType == JSChars(<<"t", "r", "a", "c", "k">>)

TrailerType == JSChars(<<"T", "r", "a", "i", "l", "e", "r">>)

\* the answers a single poll is followed through
PollJellyfin ==
    { HttpStatus, JfList(<< >>), JfList(<<JSNull>>) }
    \cup { JfList(<<x>>) :
             x \in JellyfinSessionsOf({MovieType, EpisodeType, AudioType, TrailerType},
                                      {JSUndef, JSNum(30000)},
                                      {JSNum(20000), JSNum(45000)}) }

\* the answers concurrent polls are followed through: a failure, a movie
\* playing past its end with an image, a paused track without image or duration
CtlJellyfin ==
    { HttpStatus,
      JfList(<<JfSession(JfItem(MovieType, JSNum(30000), Primary, JSUndef),
                         JfPlayState(JSNum(45000), FALSE))>>),
      JfList(<<JfSession(JfItem(AudioType, JSUndef, JSUndef, JSStr("Abbey Road")),
                         JfPlayState(JSUndef, TRUE))>>) }

PlexSession(type, dur, off, player, thumb) ==
    [t |-> "object", title |-> JSStr("Pilot"), type |-> type, duration |-> dur,
     viewOffset |-> off, Player |-> player, thumb |-> thumb, year |-> JSNum(1999),
     studio |-> JSStr("Studio"), grandparentTitle |-> JSStr("Show"),
     parentIndex |-> JSNum(1), index |-> JSNum(2), originalTitle |-> JSUndef,
     parentTitle |-> JSStr("Abbey Road")]

PlexPlayer(state) == [t |-> "object", state |-> state]

PlexSessionsOf(types, durations, offsets) ==
    { PlexSession(ty, dur, off, PlexPlayer(JSStr(st)), thumb) :
        ty \in types, dur \in durations, off \in offsets,
        st \in {"playing", "paused"}, thumb \in {JSUndef, JSStr("/thumb/1")} }

PlexSessions ==
    PlexSessionsOf(TypeValues, MsValues, MsValues)
    \cup
    { PlexSession(JSChars(<<"m", "o", "v", "i", "e">>), dur, JSNum(1), JSUndef, JSUndef) :
        dur \in MsValues }

PlexBody(metadata) ==
    HttpOk([kind |-> "object",
            MediaContainer |-> [t |-> "object", Metadata |-> metadata]])

PlexList(items) == [t |-> "object", items |-> items]

\* every answer the Plex adapter is evaluated on
PlexHttp ==
    BadHttp
    \cup { HttpOk([kind |-> "object", MediaContainer |-> JSUndef]),
           JfList(<< >>) }
    \cup { PlexBody(JSUndef), PlexBody(PlexList(<< >>)), PlexBody(PlexList(<<JSNull>>)) }
    \cup { PlexBody(PlexList(<<x>>)) : x \in PlexSessions }

\* the answers a single poll is followed through
PollPlex ==
    { HttpStatus, PlexBody(JSUndef), HttpOk([kind |-> "object", MediaContainer |-> JSUndef]) }
    \cup { PlexBody(PlexList(<<x>>)) :
             x \in PlexSessionsOf({MovieType, EpisodeType, TrackType, TrailerType},
                                  {JSUndef, JSNum(3)}, {JSNum(2), JSNum(7)}) }

\* the answers concurrent polls are followed through
CtlPlex ==
    { HttpStatus,
      PlexBody(PlexList(<<PlexSession(MovieType, JSNum(3), JSNum(7),
                                      PlexPlayer(JSStr("playing")), JSStr("/thumb/1"))>>)),
      PlexBody(PlexList(<<PlexSession(TrackType, JSUndef, JSUndef,
                                      PlexPlayer(JSStr("paused")), JSUndef)>>)) }

\* season / episode numbers
IndexValues == {JSUndef, JSNum(0), JSNum(1), JSNum(2), JSNum(9), JSNum(10), JSNum(12), JSNum(100)}

-----------------------------------------------------------------------------
(* The configuration *)

\* definePluginSettings, lines 38-93: the defaults
DefaultSettings ==
    [serverType            |-> "jellyfin",
     serverUrl             |-> JSUndef,
     apiKey                |-> JSUndef,
     episodeFormat         |-> "natural",
     showTimestamps        |-> TRUE,
     serverName            |-> JSUndef,
     updateInterval        |-> 10,
     hideWhenPaused        |-> TRUE,
     hideWhenOtherActivity |-> FALSE]

UrlValues == {JSUndef, JSStr(""), JSStr("http://srv")}

KeyValues == {JSUndef, JSStr(""), JSStr("key")}

-----------------------------------------------------------------------------
(* The presence controller: helpers of updatePresence *)

NoTimer == 0

\* Date.now() at line 371
Now == 1000

\* how far Date.now() can have advanced between line 371 and line 372
ClockDrift == {0, 1}

\* one FluxDispatcher.dispatch call: ok = FALSE when dispatch threw
Dispatched(src, activity, ok) ==
    [type |-> "LOCAL_ACTIVITY_UPDATE", activity |-> activity, socketId |-> SocketId,
     src |-> src, ok |-> ok]

\* a clear dispatched without the socketId of line 318: what C19 rules out
clearPresenceUntagged(log, src, ok) ==
    Append(log, [type |-> "LOCAL_ACTIVITY_UPDATE", activity |-> JSNull,
                 socketId |-> "", src |-> src, ok |-> ok])

\* clearPresence(), lines 314-320
clearPresence(log, src, ok) == Append(log, Dispatched(src, JSNull, ok))

\* the activity the sink holds: that of the last dispatch it accepted
RECURSIVE LastDelivered(_)
LastDelivered(log) ==
    IF log = << >> THEN JSNull
    ELSE IF log[Len(log)].ok THEN log[Len(log)].activity
    ELSE LastDelivered(SubSeq(log, 1, Len(log) - 1))

OtherAppId == "356875570916753438"

\* PresenceStore.getActivities(): this plugin's activity when one is set, and
\* the activity of another application when there is one
getActivities(log, other) ==
    (IF LastDelivered(log) # JSNull
     THEN {[application_id |-> LastDelivered(log).application_id]} ELSE {})
    \cup (IF other THEN {[application_id |-> OtherAppId]} ELSE {})

\* the rule of line 328 without its pause clause: what C3 rules out
ShouldClearWhenAbsent(s, mediaData) == ~Truthy(mediaData)

\* the test of line 335 with = for !==: what C4 rules out
HasOwnActivity(activities) ==
    \E a \in activities : a.application_id = DISCORD_APP_ID

\* line 328
ShouldClear(s, mediaData) ==
    ~Truthy(mediaData) \/ (Truthy(mediaData.isPaused) /\ s.hideWhenPaused)

\* the test of line 335 without its comparison of application ids: what C20
\* rules out
HasAnyActivity(activities) == activities # {}

\* line 335
HasOtherActivity(activities) ==
    \E a \in activities : a.application_id # DISCORD_APP_ID

\* lines 341-354
getDetails(s, mediaData) ==
    CASE mediaData.type = "Episode" ->
            ToStr(mediaData.series) \o " - "
                \o formatEpisodeNumber(s, mediaData.season, mediaData.episode)
      [] mediaData.type = "Audio" ->
            ToStr(mediaData.artist)
                \o (IF Truthy(mediaData.albumTitle)
                    THEN " - " \o ToStr(mediaData.albumTitle) ELSE "")
      [] mediaData.type = "Movie" ->
            ToStr(mediaData.title)
                \o (IF Truthy(mediaData.year)
                    THEN " (" \o ToStr(mediaData.year) \o ")" ELSE "")
      [] mediaData.type = "Photo" ->
            "Viewing "
                \o (IF Truthy(mediaData.photographer)
                    THEN ToStr(mediaData.photographer) \o "'s " ELSE "")
                \o "photo"
      [] OTHER -> ToStr(mediaData.title)

\* the bullet separator of line 367, written in ASCII
Separator == " * "

RECURSIVE JoinWith(_, _)
JoinWith(parts, sep) ==
    IF parts = << >> THEN ""
    ELSE IF Len(parts) = 1 THEN parts[1]
    ELSE parts[1] \o sep \o JoinWith(Tail(parts), sep)

\* the string Array.prototype.join makes of an element: "" for undefined and null
JoinStr(v) == IF v.t \in {"undefined", "null"} THEN "" ELSE ToStr(v)

\* lines 356-368 with the title put in front for every type: what C11 rules out
getStateAnyType(mediaData) ==
    LET joined == JoinStr(mediaData.title)
    IN IF joined # "" THEN joined ELSE "Watching"

\* lines 356-368
getState(mediaData) ==
    LET p1 == IF mediaData.type = "Episode" THEN <<JoinStr(mediaData.title)>> ELSE << >>
        p2 == IF mediaData.type = "Audio" /\ Truthy(mediaData.albumTitle)
              THEN <<"from " \o ToStr(mediaData.albumTitle)>> \o p1 ELSE p1
        joined == JoinWith(p2, Separator)
    IN IF joined # "" THEN joined ELSE "Watching"

JSPos(v) == IF Truthy(v) THEN v.n ELSE 0

\* lines 370-373
Timestamps(s, mediaData, drift) ==
    IF s.showTimestamps /\ Truthy(mediaData.duration)
    THEN [t     |-> "object",
          start |-> Now - JSPos(mediaData.position),
          end   |-> Now + drift + (mediaData.duration.n - JSPos(mediaData.position))]
    ELSE JSUndef

\* lines 375-380, once both lookups have resolved
Assets(s, p) ==
    IF Truthy(p.mediaData.imageUrl)
    THEN [t           |-> "object",
          large_image |-> p.large_image,
          large_text  |-> p.mediaData.title,
          small_image |-> p.small_image,
          small_text  |-> getServerName(s)]
    ELSE JSUndef

\* lines 382-393
Activity(s, p) ==
    [application_id |-> DISCORD_APP_ID,
     name           |-> p.mediaData.title,
     details        |-> getDetails(s, p.mediaData),
     state          |-> getState(p.mediaData),
     assets         |-> Assets(s, p),
     timestamps     |-> p.timestamps,
     type           |-> IF p.mediaData.type = "Audio" THEN 2 ELSE 3,
     flags          |-> 1]

\* ApplicationAssetUtils.fetchAssetIds(DISCORD_APP_ID, [key])[0]
AssetId(key) == JSStr("mp:" \o key)

-----------------------------------------------------------------------------
(* The presence controller: start, stop, updatePresence *)

Pending == [k |-> "pending"]

PollSrc(i) == [src |-> "poll", poll |-> i]

StopSrc == [src |-> "stop", poll |-> 0]

\* an updatePresence() call suspended at the await of line 324: its local
\* variables, the logger.error calls of the adapter (fetchLogged) and of its own
\* catch block (logged), and the HTTP requests made for it
NewPoll(by, epoch) ==
    [pc |-> "fetch", by |-> by, epoch |-> epoch,
     mediaData |-> JSUndef, activities |-> {}, timestamps |-> JSUndef,
     large_image |-> JSUndef, small_image |-> JSUndef,
     fetchLogged |-> 0, logged |-> 0, requests |-> 0]

\* an adapter call that repeats a failed request once: what C17 rules out
AdapterRetries(s, http) ==
    LET o == IF s.serverType = "jellyfin" THEN fetchJellyfinData(s, http)
             ELSE fetchPlexData(s, http)
    IN IF o.logged > 0 THEN [o EXCEPT !.requests = @ + 1] ELSE o

\* lines 324-326
Adapter(s, http) ==
    IF s.serverType = "jellyfin" THEN fetchJellyfinData(s, http)
    ELSE fetchPlexData(s, http)

\* the state a step of a poll leaves: the poll and the dispatch log
Left(p, log) == [poll |-> p, log |-> log]

\* catch (err), lines 401-404: okc = FALSE when the dispatch of clearPresence
\* throws, and the promise of updatePresence rejects
Caught(p, log, i, okc) ==
    Left([p EXCEPT !.pc = IF okc THEN "done" ELSE "rejected", !.logged = @ + 1],
         clearPresence(log, PollSrc(i), okc))

\* clearPresence(); return;  inside the try block
ClearAndReturn(p, log, i, ok, okc) ==
    IF ok THEN Left([p EXCEPT !.pc = "done"], clearPresence(log, PollSrc(i), TRUE))
    ELSE Caught(p, clearPresence(log, PollSrc(i), FALSE), i, okc)

\* lines 382-399
Emit(s, p, log, i, ok, okc) ==
    IF ok THEN Left([p EXCEPT !.pc = "done"],
                    Append(log, Dispatched(PollSrc(i), Activity(s, p), TRUE)))
    ELSE Caught(p, Append(log, Dispatched(PollSrc(i), Activity(s, p), FALSE)), i, okc)

\* lines 324-376, from the adapter's answer to the first asset lookup or the end:
\* actsOk = FALSE when PresenceStore.getActivities() throws
AfterFetch(s, p, log, other, i, http, actsOk, drift, ok, okc) ==
    LET o  == Adapter(s, http)
        p1 == [p EXCEPT !.mediaData = o.value, !.fetchLogged = o.logged,
                        !.requests = o.requests]
    IN
    IF o.threw THEN Caught(p1, log, i, okc)
    ELSE IF ShouldClear(s, p1.mediaData) THEN ClearAndReturn(p1, log, i, ok, okc)
    ELSE IF s.hideWhenOtherActivity /\ ~actsOk THEN Caught(p1, log, i, okc)
    ELSE
    LET p2 == IF s.hideWhenOtherActivity
              THEN [p1 EXCEPT !.activities = getActivities(log, other)] ELSE p1
    IN
    IF s.hideWhenOtherActivity /\ HasOtherActivity(p2.activities)
    THEN ClearAndReturn(p2, log, i, ok, okc)
    ELSE
    LET p3 == [p2 EXCEPT !.timestamps = Timestamps(s, p2.mediaData, drift)] IN
    IF Truthy(p3.mediaData.imageUrl) THEN Left([p3 EXCEPT !.pc = "asset1"], log)
    ELSE Emit(s, p3, log, i, ok, okc)

\* the activity dispatched once line 376 has resolved, without the lookup of
\* line 378: what C15 rules out
AfterAsset1Emits(s, p, log, i, found, okc) ==
    IF ~found THEN Caught(p, log, i, okc)
    ELSE Emit(s, [p EXCEPT !.large_image = AssetId(p.mediaData.imageUrl.s)],
              log, i, TRUE, okc)

\* line 376 resolved (found) or rejected
AfterAsset1(s, p, log, i, found, okc) ==
    IF ~found THEN Caught(p, log, i, okc)
    ELSE Left([p EXCEPT !.pc = "asset2",
                        !.large_image = AssetId(p.mediaData.imageUrl.s)], log)

\* line 378 resolved (found) or rejected, to the end
AfterAsset2(s, p, log, i, found, ok, okc) ==
    IF ~found THEN Caught(p, log, i, okc)
    ELSE Emit(s, [p EXCEPT !.small_image =
                     AssetId(ToStr(s.serverUrl) \o "/web/favicon.png")],
              log, i, ok, okc)

Starts == Len(SelectSeq(lifecycle, LAMBDA c : c = "start"))

\* start() cancelling the timer of the handle before it stores the new one:
\* what C14 rules out
startReplacesTimer ==
    /\ Len(lifecycle) < MaxLifecycle
    /\ Len(polls) < MaxPolls
    /\ polls' = Append(polls, NewPoll(NoTimer, Len(lifecycle) + 1))
    /\ interval' = Starts + 1
    /\ timers' = (timers \ {interval}) \cup {Starts + 1}
    /\ lifecycle' = Append(lifecycle, "start")
    /\ UNCHANGED <<settings, sinkLog, foreign, call, ret>>

\* start(), lines 298-304
start ==
    /\ Len(lifecycle) < MaxLifecycle
    /\ Len(polls) < MaxPolls
    /\ polls' = Append(polls, NewPoll(NoTimer, Len(lifecycle) + 1))
    /\ interval' = Starts + 1
    /\ timers' = timers \cup {Starts + 1}
    /\ lifecycle' = Append(lifecycle, "start")
    /\ UNCHANGED <<settings, sinkLog, foreign, call, ret>>

\* stop() without the clearInterval of line 308: what C13 rules out
stopKeepsTimer(ok) ==
    /\ Len(lifecycle) < MaxLifecycle
    /\ interval' = NoTimer
    /\ sinkLog' = Append(sinkLog, Dispatched([src |-> "stop", poll |-> 0], JSNull, ok))
    /\ lifecycle' = Append(lifecycle, "stop")
    /\ UNCHANGED <<settings, timers, polls, foreign, call, ret>>

\* stop(), lines 306-312: ok = FALSE when the dispatch of clearPresence throws
stop(ok) ==
    /\ Len(lifecycle) < MaxLifecycle
    /\ timers' = IF interval # NoTimer THEN timers \ {interval} ELSE timers
    /\ interval' = NoTimer
    /\ sinkLog' = clearPresence(sinkLog, StopSrc, ok)
    /\ lifecycle' = Append(lifecycle, "stop")
    /\ UNCHANGED <<settings, polls, foreign, call, ret>>

\* a timer whose callback is skipped while an earlier poll still awaits its
\* fetch: what C16 rules out
TickUnlessPending(t) ==
    /\ t \in timers
    /\ Len(polls) < MaxPolls
    /\ \A i \in DOMAIN polls : polls[i].pc # "fetch"
    /\ polls' = Append(polls, NewPoll(t, Len(lifecycle)))
    /\ UNCHANGED <<settings, interval, timers, sinkLog, foreign, lifecycle, call, ret>>

\* the callback of setInterval, line 301
Tick(t) ==
    /\ t \in timers
    /\ Len(polls) < MaxPolls
    /\ polls' = Append(polls, NewPoll(t, Len(lifecycle)))
    /\ UNCHANGED <<settings, interval, timers, sinkLog, foreign, lifecycle, call, ret>>

Apply(i, left) ==
    /\ polls' = [polls EXCEPT ![i] = left.poll]
    /\ sinkLog' = left.log
    /\ UNCHANGED <<settings, interval, timers, foreign, lifecycle, call, ret>>

FetchDone(i, http, actsOk, drift, ok, okc) ==
    /\ polls[i].pc = "fetch"
    /\ Apply(i, AfterFetch(settings, polls[i], sinkLog, foreign, i, http,
                           actsOk, drift, ok, okc))

Asset1Done(i, found, okc) ==
    /\ polls[i].pc = "asset1"
    /\ Apply(i, AfterAsset1(settings, polls[i], sinkLog, i, found, okc))

Asset2Done(i, found, ok, okc) ==
    /\ polls[i].pc = "asset2"
    /\ Apply(i, AfterAsset2(settings, polls[i], sinkLog, i, found, ok, okc))

\* another application's activity starts or ends
OtherActivity ==
    /\ foreign' = ~foreign
    /\ UNCHANGED <<settings, interval, timers, polls, sinkLog, lifecycle, call, ret>>

-----------------------------------------------------------------------------
(* Specifications *)

With(url, key, type) ==
    [DefaultSettings EXCEPT !.serverUrl = url, !.apiKey = key, !.serverType = type]

Flags(s, paused, other, stamps) ==
    [s EXCEPT !.hideWhenPaused = paused, !.hideWhenOtherActivity = other,
              !.showTimestamps = stamps]

\* a complete configuration, one without URL and one without credential
Servers ==
    { With(JSStr("http://srv"), JSStr("key"), "jellyfin"),
      With(JSUndef, JSStr("key"), "jellyfin"),
      With(JSStr("http://srv"), JSStr(""), "plex") }

\* the default flags, and their opposites
CtlSettings ==
    { Flags(s, f[1], f[2], f[3]) :
        s \in Servers, f \in {<<TRUE, FALSE, TRUE>>, <<FALSE, TRUE, FALSE>>} }

PollSettings ==
    { [Flags(With(JSStr("http://srv"), JSStr("key"), type), paused, other, stamps)
         EXCEPT !.episodeFormat = format, !.serverName = name] :
        type \in ServiceType, paused \in BOOLEAN, other \in BOOLEAN,
        stamps \in BOOLEAN, format \in DisplayFormat,
        name \in {JSUndef, JSStr("Home")} }
    \cup
    \* without URL or credential the guards of lines 115 and 182 return before
    \* episodeFormat and serverName are read
    { Flags(With(url, key, type), paused, other, stamps) :
        url \in {JSUndef, JSStr("http://srv")}, key \in {JSStr(""), JSStr("key")},
        type \in ServiceType, paused \in BOOLEAN, other \in BOOLEAN,
        stamps \in BOOLEAN }

CtlHttp(s) == IF s.serverType = "jellyfin" THEN CtlJellyfin ELSE CtlPlex

PollHttp(s) == IF s.serverType = "jellyfin" THEN PollJellyfin ELSE PollPlex

\* the plugin as constructed: no timer, nothing dispatched
Idle ==
    /\ interval = NoTimer
    /\ timers = {}
    /\ polls = << >>
    /\ sinkLog = << >>
    /\ lifecycle = << >>

Init ==
    /\ settings \in CtlSettings
    /\ Idle
    /\ foreign \in BOOLEAN
    /\ call = Pending
    /\ ret = Pending

\* the updatePresence() calls suspended at the await of line 324 ("fetch"),
\* 376 ("asset1") or 378 ("asset2")
Awaiting(pc) == {i \in DOMAIN polls : polls[i].pc = pc}

Next ==
    \/ start
    \/ stop(TRUE)
    \/ \E t \in timers : Tick(t)
    \/ \E i \in Awaiting("fetch"), http \in CtlHttp(settings) :
            FetchDone(i, http, TRUE, 0, TRUE, TRUE)
    \/ \E i \in Awaiting("asset1"), found \in BOOLEAN : Asset1Done(i, found, TRUE)
    \/ \E i \in Awaiting("asset2"), found \in BOOLEAN : Asset2Done(i, found, TRUE, TRUE)
    \/ OtherActivity

\* start(), stop() and timer ticks in any order, with polls overlapping; the
\* asset lookups can fail, the sink accepts every dispatch (SpecPoll follows one
\* poll with a sink that can throw)
Spec == Init /\ [][Next]_vars

InitPoll ==
    /\ settings \in PollSettings
    /\ Idle
    /\ foreign \in BOOLEAN
    /\ call = Pending
    /\ ret = Pending

NextPoll ==
    \/ polls = << >> /\ start
    \/ \E i \in Awaiting("fetch"), http \in PollHttp(settings),
           actsOk, ok, okc \in BOOLEAN, drift \in ClockDrift :
            FetchDone(i, http, actsOk, drift, ok, okc)
    \/ \E i \in Awaiting("asset1"), found, okc \in BOOLEAN : Asset1Done(i, found, okc)
    \/ \E i \in Awaiting("asset2"), found, ok, okc \in BOOLEAN :
            Asset2Done(i, found, ok, okc)
    \/ OtherActivity

\* the poll start() makes, followed to its end under every configuration
SpecPoll == InitPoll /\ [][NextPoll]_vars

\* the configurations of CtlSettings in which the server URL or the credential
\* is unset
UnsetSettings == {s \in CtlSettings : ~Truthy(s.serverUrl) \/ ~Truthy(s.apiKey)}

InitUnset ==
    /\ settings \in UnsetSettings
    /\ Idle
    /\ foreign = FALSE
    /\ call = Pending
    /\ ret = Pending

\* no poll gets past line 331 while the adapters return at lines 115 and 182
NextUnset ==
    \/ start
    \/ stop(TRUE)
    \/ \E t \in timers : Tick(t)
    \/ \E i \in Awaiting("fetch"), http \in CtlHttp(settings) :
            FetchDone(i, http, TRUE, 0, TRUE, TRUE)
    \/ OtherActivity

\* start(), stop() and timer ticks in any order under an incomplete
\* configuration; the sink accepts every dispatch
SpecUnset == InitUnset /\ [][NextUnset]_vars

Done(v) == [k |-> "done", v |-> v]

JellyfinCalls == {[fn |-> "fetchJellyfinData", http |-> h] : h \in JellyfinHttp}

PlexCalls == {[fn |-> "fetchPlexData", http |-> h] : h \in PlexHttp}

FormatCalls ==
    {[fn |-> "formatEpisodeNumber", season |-> a, episode |-> b] :
        a \in IndexValues, b \in IndexValues}

\* the fields of MediaData getState reads
StateCalls ==
    {[fn |-> "getState",
      mediaData |-> [t |-> "object", type |-> ty, title |-> ti, albumTitle |-> al]] :
        ty \in MediaType, ti \in {JSUndef, JSStr(""), JSStr("Pilot")},
        al \in {JSUndef, JSStr(""), JSStr("Abbey Road")}}

InitFn ==
    /\ Idle
    /\ foreign = FALSE
    /\ ret = Pending
    /\ \/ /\ call \in JellyfinCalls
          /\ settings \in {With(u, k, "jellyfin") : u \in UrlValues, k \in KeyValues}
       \/ /\ call \in PlexCalls
          /\ settings \in {With(u, k, "plex") : u \in UrlValues, k \in KeyValues}
       \/ /\ call \in FormatCalls
          /\ settings \in {[DefaultSettings EXCEPT !.episodeFormat = f] :
                              f \in DisplayFormat}
       \/ /\ call \in StateCalls
          /\ settings = DefaultSettings

CallFetchJellyfin ==
    /\ ret = Pending
    /\ call.fn = "fetchJellyfinData"
    /\ ret' = Done(fetchJellyfinData(settings, call.http))
    /\ UNCHANGED <<settings, interval, timers, polls, sinkLog, foreign, lifecycle, call>>

CallFetchPlex ==
    /\ ret = Pending
    /\ call.fn = "fetchPlexData"
    /\ ret' = Done(fetchPlexData(settings, call.http))
    /\ UNCHANGED <<settings, interval, timers, polls, sinkLog, foreign, lifecycle, call>>

CallFormatEpisodeNumber ==
    /\ ret = Pending
    /\ call.fn = "formatEpisodeNumber"
    /\ ret' = Done(formatEpisodeNumber(settings, call.season, call.episode))
    /\ UNCHANGED <<settings, interval, timers, polls, sinkLog, foreign, lifecycle, call>>

CallGetState ==
    /\ ret = Pending
    /\ call.fn = "getState"
    /\ ret' = Done(getState(call.mediaData))
    /\ UNCHANGED <<settings, interval, timers, polls, sinkLog, foreign, lifecycle, call>>

NextFn ==
    \/ CallFetchJellyfin
    \/ CallFetchPlex
    \/ CallFormatEpisodeNumber
    \/ CallGetState

\* one call of an adapter or of the formatter on each input
SpecFn == InitFn /\ [][NextFn]_vars

-----------------------------------------------------------------------------
(* Properties: vocabulary *)

Terminated(p) == p.pc \in {"done", "rejected"}

Last(seq) == seq[Len(seq)]

\* the dispatch calls poll i has made, in order
DispatchesIn(log, i) == SelectSeq(log, LAMBDA e : e.src = PollSrc(i))

PollDispatches(i) == DispatchesIn(sinkLog, i)

\* the dispatch calls found in log for poll i are clears, there is at least one,
\* and the sink took the last of them when the poll p ended normally
OnlyClears(log, i, p) ==
    LET d == DispatchesIn(log, i) IN
    /\ Len(d) >= 1
    /\ \A k \in 1..Len(d) : d[k].activity = JSNull
    /\ p.pc = "done" => Last(d).ok

ConfigComplete == Truthy(settings.serverUrl) /\ Truthy(settings.apiKey)

AdapterCalled == ret # Pending /\ call.fn \in {"fetchJellyfinData", "fetchPlexData"}

IsPlaying(session) == session.t = "object" /\ Truthy(session.NowPlayingItem)

\* the session of the answer the adapter maps: Jellyfin's first session with a
\* NowPlayingItem, Plex's first metadata entry
SrcSession ==
    IF call.fn = "fetchJellyfinData"
    THEN LET ss == call.http.body.sessions IN
         ss[CHOOSE i \in 1..Len(ss) :
                IsPlaying(ss[i]) /\ \A j \in 1..(i - 1) : ~IsPlaying(ss[j])]
    ELSE call.http.body.MediaContainer.Metadata.items[1]

SrcType ==
    IF call.fn = "fetchJellyfinData" THEN SrcSession.NowPlayingItem.Type.c
    ELSE SrcSession.type.c

SrcDuration ==
    IF call.fn = "fetchJellyfinData" THEN SrcSession.NowPlayingItem.RunTimeTicks
    ELSE SrcSession.duration

SrcPosition ==
    IF call.fn = "fetchJellyfinData" THEN SrcSession.PlayState.PositionTicks
    ELSE SrcSession.viewOffset

-----------------------------------------------------------------------------
(* C1 *)

\* C1: stop() dispatches exactly one clear, and nothing is dispatched after
\* stop() has returned: while the plugin is stopped, the last dispatch the sink
\* saw is the one stop() made, and stop() calls and their clears match in number.
C1_NoEmissionAfterStop ==
    (lifecycle # << >> /\ Last(lifecycle) = "stop") =>
        /\ Len(SelectSeq(sinkLog, LAMBDA e : e.src = StopSrc))
             = Len(SelectSeq(lifecycle, LAMBDA c : c = "stop"))
        /\ Last(sinkLog).src = StopSrc

-----------------------------------------------------------------------------
(* C2 *)

\* C2: after start(); stop(), once every poll has run to completion, the
\* payload the sink holds is the clear.
C2_ClearedAfterStop ==
    (lifecycle = <<"start", "stop">> /\ \A i \in DOMAIN polls : Terminated(polls[i]))
        => LastDelivered(sinkLog) = JSNull

-----------------------------------------------------------------------------
(* C3 *)

\* C3: a poll whose adapter returned paused media while hideWhenPaused is set
\* dispatches clears only, whatever the media type and the other settings.
C3_PausedIsHidden ==
    \A i \in DOMAIN polls :
        ( /\ Terminated(polls[i])
          /\ settings.hideWhenPaused
          /\ polls[i].mediaData.t = "object"
          /\ Truthy(polls[i].mediaData.isPaused) )
        => OnlyClears(sinkLog, i, polls[i])

C3_Witness ==
    /\ polls # << >>
    /\ polls[1].pc = "done"
    /\ settings.hideWhenPaused /\ ~settings.hideWhenOtherActivity
    /\ polls[1].mediaData.t = "object"
    /\ polls[1].mediaData.type = "Audio"
    /\ Truthy(polls[1].mediaData.isPaused)
    /\ PollDispatches(1) = <<Dispatched(PollSrc(1), JSNull, TRUE)>>

-----------------------------------------------------------------------------
(* C4 *)

\* C4: with hideWhenOtherActivity set, a poll whose fetch completes while the
\* sink lists an activity of another application ends in that step and
\* dispatches clears only, whatever the adapter returned.
C4_OtherActivityHides ==
    [][ \A i \in DOMAIN polls :
          ( /\ polls[i].pc = "fetch"
            /\ polls'[i].pc # "fetch"
            /\ settings.hideWhenOtherActivity
            /\ foreign )
          => /\ Terminated(polls'[i])
             /\ OnlyClears(sinkLog', i, polls'[i]) ]_vars

C4_Witness ==
    /\ polls # << >>
    /\ polls[1].pc = "done"
    /\ settings.hideWhenOtherActivity /\ ~settings.hideWhenPaused
    /\ polls[1].mediaData.t = "object"
    /\ [application_id |-> OtherAppId] \in polls[1].activities
    /\ PollDispatches(1) = <<Dispatched(PollSrc(1), JSNull, TRUE)>>

-----------------------------------------------------------------------------
(* C5 *)

\* the catch block of poll i was entered by a failed asset lookup, a failed
\* activity-list query or a failed dispatch of the populated activity
ListedFailure(i) ==
    /\ polls[i].logged > 0
    /\ ~(Len(PollDispatches(i)) = 2 /\ PollDispatches(i)[1].activity = JSNull)

\* C5: a poll in which an asset lookup, the activity-list query or the dispatch
\* of the populated activity failed still completes normally (its promise does
\* not reject), and its last dispatch is a clear the sink has taken.
C5_PollNeverThrows ==
    \A i \in DOMAIN polls :
        (Terminated(polls[i]) /\ ListedFailure(i)) =>
            /\ polls[i].pc = "done"
            /\ Last(PollDispatches(i)) = Dispatched(PollSrc(i), JSNull, TRUE)

-----------------------------------------------------------------------------
(* C6 *)

JellyfinMalformed(http) ==
    \/ http.net # "ok"
    \/ ~http.ok
    \/ http.body.kind # "list"
    \/ LET ss == http.body.sessions IN
       \E i \in 1..Len(ss) :
          /\ \A j \in 1..(i - 1) : ~IsPlaying(ss[j]) /\ ss[j].t = "object"
          /\ \/ ss[i].t # "object"
             \/ /\ IsPlaying(ss[i])
                /\ \/ ss[i].PlayState.t # "object"
                   \/ ss[i].NowPlayingItem.Type.t # "string"

PlexMalformed(http) ==
    \/ http.net # "ok"
    \/ ~http.ok
    \/ http.body.kind # "object"
    \/ http.body.MediaContainer.t # "object"
    \/ LET md == http.body.MediaContainer.Metadata IN
       /\ md.t = "object"
       /\ Len(md.items) > 0
       /\ md.items[1].t = "object"
       /\ \/ md.items[1].Player.t # "object"
          \/ md.items[1].type.t # "string"

Malformed ==
    IF call.fn = "fetchJellyfinData" THEN JellyfinMalformed(call.http)
    ELSE PlexMalformed(call.http)

\* C6: an adapter never rejects; on a transport error, an HTTP error status, an
\* unparsable body or a body of unexpected shape it resolves to null and has
\* called logger.error once.
C6_AdaptersNeverThrow ==
    AdapterCalled =>
        /\ ~ret.v.threw
        /\ (ConfigComplete /\ Malformed) =>
              (ret.v.value = JSNull /\ ret.v.logged = 1)

C6_Witness ==
    /\ AdapterCalled
    /\ ConfigComplete
    /\ call.fn = "fetchJellyfinData"
    /\ call.http.net = "ok" /\ call.http.ok /\ call.http.body.kind = "list"
    /\ Len(call.http.body.sessions) = 1
    /\ IsPlaying(call.http.body.sessions[1])
    /\ call.http.body.sessions[1].PlayState = JSUndef
    /\ ret.v = Outcome(JSNull, FALSE, 1, 1)

-----------------------------------------------------------------------------
(* C7 *)

\* C7: while the server URL or the credential is unset, every poll that has
\* ended (the one start() made and the one of every tick) made no HTTP request,
\* had null from the adapter without a logger call, and dispatched clears only:
\* one when the sink accepts it.
C7_IncompleteConfigClears ==
    \A i \in DOMAIN polls :
        (Terminated(polls[i]) /\ ~ConfigComplete) =>
            /\ polls[i].requests = 0
            /\ polls[i].fetchLogged = 0
            /\ polls[i].mediaData = JSNull
            /\ OnlyClears(sinkLog, i, polls[i])
            /\ PollDispatches(i)[1].ok =>
                  PollDispatches(i) = <<Dispatched(PollSrc(i), JSNull, TRUE)>>

C7_Witness ==
    /\ ~ConfigComplete
    /\ Len(polls) >= 2
    /\ polls[1].by = NoTimer /\ polls[1].pc = "done"
    /\ polls[2].by # NoTimer /\ polls[2].pc = "done"
    /\ polls[2].requests = 0 /\ polls[2].mediaData = JSNull
    /\ sinkLog = <<Dispatched(PollSrc(1), JSNull, TRUE),
                   Dispatched(PollSrc(2), JSNull, TRUE)>>

-----------------------------------------------------------------------------
(* C8 *)

\* C8: the progress of an adapter result is absent exactly when the source
\* duration is zero or missing; otherwise, for a position the server reports as
\* a number, it is round(position / duration * 100) and lies in 0..100.
C8_ProgressIsPercentage ==
    (AdapterCalled /\ ret.v.value.t = "object" /\ SrcPosition.t = "number") =>
        LET progress == ret.v.value.progress IN
        /\ progress = JSUndef <=> ~Truthy(SrcDuration)
        /\ Truthy(SrcDuration) =>
              /\ progress = JSNum(RoundPercent(SrcPosition.n, SrcDuration.n))
              /\ progress.n \in 0..100

-----------------------------------------------------------------------------
(* C9 *)

ExpectedJellyfinType(c) ==
    CASE c \in {<<"M", "o", "v", "i", "e">>, <<"m", "o", "v", "i", "e">>} -> "Movie"
      [] c \in {<<"E", "p", "i", "s", "o", "d", "e">>,
                <<"e", "p", "i", "s", "o", "d", "e">>} -> "Episode"
      [] c = <<"A", "u", "d", "i", "o">> -> "Audio"
      [] c = <<"V", "i", "d", "e", "o">> -> "Video"
      [] c = <<"P", "H", "O", "T", "O">> -> "Photo"
      [] OTHER -> "Unknown"

ExpectedPlexType(c) ==
    CASE c \in {<<"M", "o", "v", "i", "e">>, <<"m", "o", "v", "i", "e">>} -> "Movie"
      [] c \in {<<"E", "p", "i", "s", "o", "d", "e">>,
                <<"e", "p", "i", "s", "o", "d", "e">>} -> "Episode"
      [] c = <<"t", "r", "a", "c", "k">> -> "Audio"
      [] c = <<"P", "H", "O", "T", "O">> -> "Photo"
      [] c = <<"C", "l", "i", "p">> -> "Video"
      [] OTHER -> "Unknown"

\* C9: the type of every non-null adapter result is one of the six media types:
\* the one the server's type string names when letter case is ignored, and
\* Unknown for every other string.
C9_TypeIsMapped ==
    (AdapterCalled /\ ret.v.value.t = "object") =>
        /\ ret.v.value.type \in MediaType
        /\ ret.v.value.type =
              IF call.fn = "fetchJellyfinData" THEN ExpectedJellyfinType(SrcType)
              ELSE ExpectedPlexType(SrcType)

C9_Witness ==
    /\ AdapterCalled
    /\ call.fn = "fetchPlexData"
    /\ ret.v.value.t = "object"
    /\ SrcType = <<"C", "l", "i", "p">>
    /\ ret.v.value.type = "Video"

-----------------------------------------------------------------------------
(* C10 *)

Plain(v) ==
    CASE v = JSNum(1) -> "1" [] v = JSNum(2) -> "2" [] v = JSNum(9) -> "9"
      [] v = JSNum(10) -> "10" [] v = JSNum(12) -> "12" [] v = JSNum(100) -> "100"

TwoDigits(v) ==
    CASE v = JSNum(1) -> "01" [] v = JSNum(2) -> "02" [] v = JSNum(9) -> "09"
      [] v = JSNum(10) -> "10" [] v = JSNum(12) -> "12" [] v = JSNum(100) -> "100"

ExpectedLabel(format, season, episode) ==
    IF season \in {JSUndef, JSNum(0)} \/ episode \in {JSUndef, JSNum(0)} THEN ""
    ELSE CASE format = "natural" ->
                "Season " \o Plain(season) \o " Episode " \o Plain(episode)
           [] format = "short" ->
                "S" \o TwoDigits(season) \o "E" \o TwoDigits(episode)
           [] format = "minimal" ->
                Plain(season) \o "x" \o TwoDigits(episode)

\* C10: formatEpisodeNumber returns "" when season or episode is missing or
\* zero, and otherwise "Season s Episode e", "SssEee" with both numbers padded
\* to two digits, or "sxee" with the episode padded, by the episode format.
C10_EpisodeLabel ==
    (ret # Pending /\ call.fn = "formatEpisodeNumber") =>
        ret.v = ExpectedLabel(settings.episodeFormat, call.season, call.episode)

C10_Witness ==
    /\ call.fn = "formatEpisodeNumber"
    /\ settings.episodeFormat = "short"
    /\ call.season = JSNum(1) /\ call.episode = JSNum(2)
    /\ ret = Done("S01E02")

-----------------------------------------------------------------------------
(* C11 *)

StateCalled == call.fn = "getState" /\ ret # Pending

TitleText == IF call.mediaData.title.t = "string" THEN call.mediaData.title.s ELSE ""

AlbumText ==
    IF call.mediaData.albumTitle.t = "string" THEN call.mediaData.albumTitle.s ELSE ""

\* C11 as stated: the state string is the title for an Episode, "from" and the
\* album title for Audio with an album title, and "Watching" in every other case.
C11_StateAsStated ==
    StateCalled =>
        ret.v = CASE call.mediaData.type = "Episode" -> TitleText
                  [] call.mediaData.type = "Audio" /\ AlbumText # "" ->
                        "from " \o AlbumText
                  [] OTHER -> "Watching"

\* C11, amended: the state string is the title for an Episode whose title is not
\* empty, "from" and the album title for Audio with a non-empty album title, and
\* "Watching" in every other case, an Episode without title included.
C11_StateString ==
    StateCalled =>
        ret.v = CASE call.mediaData.type = "Episode" /\ TitleText # "" -> TitleText
                  [] call.mediaData.type = "Audio" /\ AlbumText # "" ->
                        "from " \o AlbumText
                  [] OTHER -> "Watching"

C11_Witness ==
    /\ StateCalled
    /\ call.mediaData.type = "Audio"
    /\ call.mediaData.albumTitle = JSStr("Abbey Road")
    /\ ret = Done("from Abbey Road")

-----------------------------------------------------------------------------
(* C12 *)

JellyfinMapped ==
    /\ call.fn = "fetchJellyfinData"
    /\ ret # Pending
    /\ ret.v.value.t = "object"

\* floor(ticks / 10000) for the tick counts of TickValues
Quotient(ticks) ==
    CASE ticks = 0 -> 0 [] ticks = 5000 -> 0 [] ticks = 20000 -> 2
      [] ticks = 30000 -> 3 [] ticks = 45000 -> 4 [] ticks = 50000000 -> 5000

\* C12 as stated: duration and position of a Jellyfin result are
\* floor(ticks / 10000) of RunTimeTicks and PositionTicks for every tick count
\* from 0 up.
C12_MillisecondsAsStated ==
    JellyfinMapped =>
        /\ SrcDuration.t = "number" =>
              ret.v.value.duration = JSNum(Quotient(SrcDuration.n))
        /\ SrcPosition.t = "number" =>
              ret.v.value.position = JSNum(Quotient(SrcPosition.n))

\* C12, amended: duration and position of a Jellyfin result are
\* floor(ticks / 10000) of RunTimeTicks and PositionTicks for every positive
\* tick count, and absent when the tick count is 0 or missing.
C12_Milliseconds ==
    JellyfinMapped =>
        /\ ret.v.value.duration =
              IF SrcDuration.t = "number" /\ SrcDuration.n > 0
              THEN JSNum(Quotient(SrcDuration.n)) ELSE JSUndef
        /\ ret.v.value.position =
              IF SrcPosition.t = "number" /\ SrcPosition.n > 0
              THEN JSNum(Quotient(SrcPosition.n)) ELSE JSUndef

C12_Witness ==
    /\ JellyfinMapped
    /\ SrcDuration = JSNum(50000000)
    /\ SrcPosition = JSNum(45000)
    /\ ret.v.value.duration = JSNum(5000)
    /\ ret.v.value.position = JSNum(4)

-----------------------------------------------------------------------------
(* C13 *)

\* start() and stop() were called in turn, start() first
Paired(calls) ==
    \A k \in 1..Len(calls) : calls[k] = IF k % 2 = 1 THEN "start" ELSE "stop"

Called(name) == Len(lifecycle') = Len(lifecycle) + 1 /\ Last(lifecycle') = name

\* C13: start() makes one poll at once and leaves a timer running (the only one
\* when the calls are paired); a poll made otherwise is the one poll of a tick of
\* a running timer (under paired calls, of the timer in the handle, so none is
\* made while the handle is empty); stop() cancels the timer of the handle and
\* empties the handle (under paired calls no timer is left).
C13_PollsFollowLifecycle ==
    [][ /\ Called("start") =>
              /\ Len(polls') = Len(polls) + 1
              /\ Last(polls').pc = "fetch" /\ Last(polls').by = NoTimer
              /\ interval' # NoTimer /\ interval' \in timers'
              /\ Paired(lifecycle') => (interval = NoTimer /\ timers' = {interval'})
        /\ Called("stop") =>
              /\ polls' = polls
              /\ interval' = NoTimer /\ interval \notin timers'
              /\ Paired(lifecycle') => timers' = {}
        /\ (lifecycle' = lifecycle /\ Len(polls') # Len(polls)) =>
              /\ Len(polls') = Len(polls) + 1
              /\ Last(polls').pc = "fetch" /\ Last(polls').by \in timers
              /\ Paired(lifecycle) =>
                    (interval # NoTimer /\ Last(polls').by = interval)
      ]_vars

C13_Witness ==
    /\ lifecycle = <<"start", "stop", "start">>
    /\ Len(polls) = 3
    /\ polls[1].by = NoTimer /\ polls[2].by = 1 /\ polls[3].by = NoTimer
    /\ interval = 2 /\ timers = {2}

-----------------------------------------------------------------------------
(* C14 *)

\* C14: once start() was called twice in a row, the timer of the first call
\* stays running whatever is called next; after start(); start(); stop() the
\* handle is empty, that timer is the one left, and its tick can still make a
\* poll.
C14_SecondStartLeaksTimer ==
    /\ (Len(lifecycle) >= 2 /\ SubSeq(lifecycle, 1, 2) = <<"start", "start">>)
          => 1 \in timers
    /\ lifecycle = <<"start", "start", "stop">> =>
          /\ interval = NoTimer
          /\ timers = {1}
          /\ Len(polls) < MaxPolls => ENABLED Tick(1)

\* after start(); start(); stop() a poll made by the first timer after stop()
\* returned has delivered a populated activity, the last payload of the sink
C14_Witness ==
    /\ lifecycle = <<"start", "start", "stop">>
    /\ \E i \in DOMAIN polls :
          /\ polls[i].by = 1 /\ polls[i].epoch = 3
          /\ polls[i].pc = "done"
          /\ Last(sinkLog).src = PollSrc(i)
          /\ Last(sinkLog).activity # JSNull
          /\ \E k \in 1..Len(sinkLog) : sinkLog[k].src = StopSrc

-----------------------------------------------------------------------------
(* C15 *)

\* poll i dispatches a populated activity in this step
Emits(i) ==
    /\ Len(sinkLog') = Len(sinkLog) + 1
    /\ Last(sinkLog').src = PollSrc(i)
    /\ Last(sinkLog').activity # JSNull

\* C15: whatever other polls are in flight, the step in which a poll dispatches
\* a populated activity ends that poll and is the completion of its fetch (no
\* image URL) or of its second asset lookup (image URL, both asset ids set); the
\* poll's own result is media that no rule suppresses, and name, type and
\* assets of the activity are those of that result.
C15_PollIsSequential ==
    [][ \A i \in DOMAIN polls : Emits(i) =>
          LET m == polls'[i].mediaData
              a == Last(sinkLog').activity
          IN
          /\ polls'[i].pc = "done"
          /\ m.t = "object"
          /\ ~(Truthy(m.isPaused) /\ settings.hideWhenPaused)
          /\ settings.hideWhenOtherActivity =>
                [application_id |-> OtherAppId] \notin polls'[i].activities
          /\ a.name = m.title
          /\ a.type = IF m.type = "Audio" THEN 2 ELSE 3
          /\ IF Truthy(m.imageUrl)
             THEN /\ polls[i].pc = "asset2"
                  /\ polls[i].large_image.t = "string"
                  /\ a.assets.t = "object"
                  /\ a.assets.large_image = polls[i].large_image
                  /\ a.assets.small_image.t = "string"
                  /\ a.assets.large_text = m.title
             ELSE /\ polls[i].pc = "fetch"
                  /\ a.assets = JSUndef
      ]_vars

\* two polls in flight at once: the second, a movie with an image, has
\* dispatched its activity before the first, a track without image, dispatched
\* its own
C15_Witness ==
    /\ Len(polls) >= 2 /\ Len(sinkLog) = 2
    /\ polls[1].mediaData.t = "object" /\ polls[1].mediaData.type = "Audio"
    /\ polls[2].mediaData.t = "object" /\ polls[2].mediaData.type = "Movie"
    /\ sinkLog[1].src = PollSrc(2)
    /\ sinkLog[1].activity # JSNull
    /\ sinkLog[1].activity.type = 3
    /\ sinkLog[1].activity.assets.t = "object"
    /\ sinkLog[2].src = PollSrc(1)
    /\ sinkLog[2].activity # JSNull
    /\ sinkLog[2].activity.type = 2
    /\ sinkLog[2].activity.assets = JSUndef

-----------------------------------------------------------------------------
(* C16 *)

\* C16: while the plugin is Active the timer can fire and start a poll however
\* many earlier polls still await their fetch, and every poll awaiting its
\* fetch can receive its response whatever the others are waiting for.
C16_StalledPollDoesNotBlock ==
    /\ (interval # NoTimer /\ Len(polls) < MaxPolls) => ENABLED Tick(interval)
    /\ \A j \in Awaiting("fetch") :
          ENABLED (\E http \in CtlHttp(settings) :
                      FetchDone(j, http, TRUE, 0, TRUE, TRUE))

\* the first poll still awaits its fetch, the plugin is Active, and a poll
\* started later by the timer has completed and dispatched a populated activity
C16_Witness ==
    /\ interval # NoTimer
    /\ Len(polls) >= 2
    /\ polls[1].pc = "fetch"
    /\ polls[2].by = interval
    /\ polls[2].pc = "done"
    /\ sinkLog # <<>>
    /\ Last(sinkLog).src = PollSrc(2)
    /\ Last(sinkLog).activity # JSNull

-----------------------------------------------------------------------------
(* C17 *)

\* a poll that has ended with no failure of the sink, of an asset lookup or of
\* the activity list: nothing reached its catch block
CompletedCleanly(p) == p.pc = "done" /\ p.logged = 0

\* the poll's adapter returned media and neither rule of lines 328-339 hides it
Shown(p) ==
    /\ p.mediaData.t = "object"
    /\ ~(Truthy(p.mediaData.isPaused) /\ settings.hideWhenPaused)
    /\ ~(settings.hideWhenOtherActivity
            /\ [application_id |-> OtherAppId] \in p.activities)

\* C17: a poll that completes without a collaborator failure has made at most
\* one HTTP request (none is repeated after a failed fetch) and exactly one
\* dispatch, which the sink took; the dispatch carries a populated activity
\* when the adapter returned media that no rule hides, and a clear otherwise.
C17_OnePayloadPerPoll ==
    \A i \in DOMAIN polls : CompletedCleanly(polls[i]) =>
        /\ polls[i].requests <= 1
        /\ Len(PollDispatches(i)) = 1
        /\ PollDispatches(i)[1].ok
        /\ PollDispatches(i)[1].activity # JSNull <=> Shown(polls[i])

\* a poll whose fetch failed has ended cleanly after one request and one clear
C17_Witness ==
    \E i \in DOMAIN polls :
        /\ CompletedCleanly(polls[i])
        /\ polls[i].fetchLogged = 1
        /\ polls[i].requests = 1
        /\ Len(PollDispatches(i)) = 1
        /\ PollDispatches(i)[1].activity = JSNull

-----------------------------------------------------------------------------
(* C18 *)

\* the populated activities the sink has taken
Populated == {k \in 1..Len(sinkLog) :
                 /\ sinkLog[k].src.src = "poll"
                 /\ sinkLog[k].activity # JSNull
                 /\ sinkLog[k].ok}

\* the media of the poll that dispatched entry k

MediaOf(k) == polls[sinkLog[k].src.poll].mediaData

DurationKnown(m) == m.duration.t = "number" /\ m.duration.n # 0

PositionOr0(m) == IF m.position.t = "number" THEN m.position.n ELSE 0

\* C18: a dispatched activity has timestamps exactly when showTimestamps is set
\* and the duration of its media is a non-zero number; then start is the time
\* of the poll less the position (0 when absent), end is that time plus
\* duration less position, and they lie one duration apart; media whose
\* position exceeds its duration is dispatched all the same.
C18_Timestamps ==
    \A k \in Populated :
        LET m  == MediaOf(k)
            ts == sinkLog[k].activity.timestamps
        IN
        /\ ts # JSUndef <=> (settings.showTimestamps /\ DurationKnown(m))
        /\ ts # JSUndef =>
              /\ ts.start = Now - PositionOr0(m)
              /\ ts.end = Now + (m.duration.n - PositionOr0(m))
              /\ ts.end - ts.start = m.duration.n

-----------------------------------------------------------------------------
(* C19 *)

\* C19: every dispatch made, by stop() or by a poll, clear or populated, is a
\* LOCAL_ACTIVITY_UPDATE with socketId "MediaStatus", and every populated
\* activity carries the application id of the plugin.
C19_TaggedMediaStatus ==
    \A k \in 1..Len(sinkLog) :
        /\ sinkLog[k].type = "LOCAL_ACTIVITY_UPDATE"
        /\ sinkLog[k].socketId = "MediaStatus"
        /\ sinkLog[k].activity # JSNull =>
              sinkLog[k].activity.application_id = DISCORD_APP_ID

\* the sink has seen the three kinds of dispatch: the clear of stop(), the
\* clear of a poll and the populated activity of a poll
C19_Witness ==
    /\ \E k \in 1..Len(sinkLog) : sinkLog[k].src = StopSrc
    /\ \E k \in 1..Len(sinkLog) :
          sinkLog[k].src.src = "poll" /\ sinkLog[k].activity = JSNull
    /\ \E k \in 1..Len(sinkLog) :
          sinkLog[k].src.src = "poll" /\ sinkLog[k].activity # JSNull

-----------------------------------------------------------------------------
(* C20 *)

\* the activity list poll i read holds nothing but activities of the plugin
OwnOnly(i) == \A a \in polls[i].activities : a.application_id = DISCORD_APP_ID

\* C20: with hideWhenOtherActivity set, a poll that got media not hidden by the
\* pause rule, read an activity list that is empty or holds only the plugin's
\* own activity, and met no failure, has dispatched a populated activity and no
\* clear: the plugin's earlier activity does not make it clear its presence.
C20_NeverSuppressesItself ==
    \A i \in DOMAIN polls :
        ( /\ settings.hideWhenOtherActivity
          /\ CompletedCleanly(polls[i])
          /\ polls[i].mediaData.t = "object"
          /\ ~(Truthy(polls[i].mediaData.isPaused) /\ settings.hideWhenPaused)
          /\ OwnOnly(i) )
        => /\ Len(PollDispatches(i)) = 1
           /\ PollDispatches(i)[1].activity # JSNull

\* two consecutive polls, the second of which read the activity the first had
\* dispatched, have each dispatched a populated activity
C20_Witness ==
    /\ settings.hideWhenOtherActivity
    /\ Len(polls) >= 2 /\ Len(sinkLog) = 2
    /\ sinkLog[1].src = PollSrc(1) /\ sinkLog[1].activity # JSNull
    /\ sinkLog[2].src = PollSrc(2) /\ sinkLog[2].activity # JSNull
    /\ polls[1].activities = {}
    /\ polls[2].activities = {[application_id |-> DISCORD_APP_ID]}
    /\ polls[1].mediaData = polls[2].mediaData

=============================================================================
